---------------------------- MODULE Spec2Model ----------------------------
(***************************************************************************)
(* The propositional entailment engine of fitch-protocol-experiment:       *)
(* generate_formula, formula_to_clauses, check_entailment,                 *)
(* check_contradiction and the generate-and-filter loops built on them.    *)
(*                                                                         *)
(* A Python string is a sequence of one-character strings, so that         *)
(* slicing, strip(), split() and the regular expression are modelled by    *)
(* what they do to the characters.  The three copies of the parser         *)
(* (entailment_finder.py, entailment_finder_interactive.py,                *)
(* test_biconditional_generation.py) are told apart by the parameter m.    *)
(***************************************************************************)
EXTENDS Integers, Sequences, FiniteSets, TLC

(***************************************************************************)
(* Bounds of the model.                                                    *)
(***************************************************************************)
\* the largest number of premises a loop of the model draws and a direct call
\* of the model is given
MaxPremises == 2
\* the attempts a loop of the model makes, and the problems it collects, before
\* the model stops following it
MaxAttempts == 1
\* the depth of the formulas the loops of the model draw: the outcomes of
\* generate_formula(MAX_DEPTH) whose recursion ended at least one level early
LoopDepth == 1
\* the attempts the model follows a loop for when nothing in the source ends it
MaxRetries == 101
\* the depth of the formulas drawn by the loops that are followed that long:
\* every call of generate_formula ends at once with an atom
RetryDepth == 0

(***************************************************************************)
(* The state.                                                              *)
(***************************************************************************)
VARIABLES
    loop,           \* the loop (or harness) that is running
    args,           \* its inputs: palette, num_premises_range, max_depth
    pc,             \* where it stands
    attempts,       \* attempts
    num_premises,   \* num_premises of the current attempt
    premises,       \* premises: a list of strings
    conclusion,     \* conclusion: a string
    found,          \* found_entailments / problems / the returned problem
    outcome,        \* how the last attempt ended
    formula_str,    \* formula_str of a direct call of formula_to_clauses
    locals,         \* left_str, op_str, right_str of its outermost call
    lit,            \* the literal it returned
    ret,            \* what the last direct call returned or raised
    wcnf,           \* the hard clauses of the last encoding session
    top_var_list,   \* top_var_list[0] of the last encoding session
    first           \* what the first of two equal calls returned or raised

vars == <<loop, args, pc, attempts, num_premises, premises, conclusion, found,
          outcome, formula_str, locals, lit, ret, wcnf, top_var_list, first>>

(***************************************************************************)
(* Configuration of the modules.                                           *)
(***************************************************************************)
FINDER == "entailment_finder"
INTERACTIVE == "entailment_finder_interactive"
BICOND == "test_biconditional_generation"
Modules == {FINDER, INTERACTIVE, BICOND}

\* ATOMS = ['P', 'Q', 'R', 'S']  (['P', 'Q', 'R'] in the biconditional test)
ATOMS(m) ==
    IF m = BICOND THEN <<"P", "Q", "R">> ELSE <<"P", "Q", "R", "S">>

\* ATOM_MAP = {atom: i + 1 for i, atom in enumerate(ATOMS)}
ATOM_MAP(m) ==
    [a \in {ATOMS(m)[i] : i \in 1..Len(ATOMS(m))} |->
        CHOOSE i \in 1..Len(ATOMS(m)) : ATOMS(m)[i] = a]

MAX_DEPTH == 2

\* the connective palettes: CONNECTIVES / ALL_CONNECTIVES and the bundles
ALL_CONNECTIVES ==
    [binary |-> <<"&", "|", "->", "<->">>, unary |-> <<"~">>]
Bundle1 == [binary |-> <<"&", "->">>]
Bundle2 == [binary |-> <<"&", "|", "->", "<->">>]

(***************************************************************************)
(* Python strings.                                                         *)
(***************************************************************************)
\* the characters str.strip(), str.split() and the pattern \s take as blank
Whitespace == {" ", "\t"}

Min(a, b) == IF a < b THEN a ELSE b
Max(a, b) == IF a > b THEN a ELSE b
Abs(x) == IF x < 0 THEN -x ELSE x

\* s[a:b] for 0 <= a, 0 <= b (0-based, b exclusive), out-of-range clamped
Slice(s, a, b) == SubSeq(s, Min(a, Len(s)) + 1, Min(b, Len(s)))

\* s[a:] for any integer a (a negative a counts from the end)
SliceFrom(s, a) ==
    IF a >= 0 THEN Slice(s, a, Len(s)) ELSE Slice(s, Max(Len(s) + a, 0), Len(s))

\* s[:b] for any integer b
SliceTo(s, b) ==
    IF b >= 0 THEN Slice(s, 0, b) ELSE Slice(s, 0, Max(Len(s) + b, 0))

\* s.lstrip(), s.rstrip(), s.strip()
RECURSIVE LStrip(_)
LStrip(s) ==
    IF s = << >> \/ s[1] \notin Whitespace THEN s ELSE LStrip(Tail(s))

RECURSIVE RStrip(_)
RStrip(s) ==
    IF s = << >> \/ s[Len(s)] \notin Whitespace THEN s
    ELSE RStrip(SubSeq(s, 1, Len(s) - 1))

Strip(s) == RStrip(LStrip(s))

\* s.startswith(p), s.endswith(p)
StartsWith(s, p) == Len(s) >= Len(p) /\ SubSeq(s, 1, Len(p)) = p
EndsWith(s, p) == Len(s) >= Len(p) /\ SubSeq(s, Len(s) - Len(p) + 1, Len(s)) = p

\* s.split(): the list of the maximal blank-free runs of s; only whether it
\* is empty and its first element are used
SplitIsEmpty(s) == \A i \in 1..Len(s) : s[i] \in Whitespace

RECURSIVE FirstRun(_, _)
FirstRun(t, i) ==
    IF i > Len(t) \/ t[i] \in Whitespace THEN SubSeq(t, 1, i - 1)
    ELSE FirstRun(t, i + 1)

SplitFirst(s) == FirstRun(LStrip(s), 1)

\* the spellings of the connectives as character sequences
Chars(op) ==
    CASE op = "&"   -> <<"&">>
      [] op = "|"   -> <<"|">>
      [] op = "->"  -> <<"-", ">">>
      [] op = "<->" -> <<"<", "-", ">">>
      [] op = "~"   -> <<"~">>

(***************************************************************************)
(* generate_formula.  A formula is drawn as a tree and rendered by the     *)
(* f-strings of the source; the set of trees is the set of outcomes of the *)
(* random choices.                                                         *)
(***************************************************************************)
\* f"({op}{sub_formula})" and f"({left} {op} {right})"
RECURSIVE Show(_)
Show(t) ==
    IF t[1] = "atom" THEN <<t[2]>>
    ELSE IF t[1] = "~" THEN <<"(">> \o Chars("~") \o Show(t[2]) \o <<")">>
    ELSE <<"(">> \o Show(t[2]) \o <<" ">> \o Chars(t[1]) \o <<" ">>
              \o Show(t[3]) \o <<")">>

Range(seq) == {seq[i] : i \in 1..Len(seq)}

\* the trees generate_formula(depth, connectives) can return when
\* random.choice(ATOMS) falls in atoms
RECURSIVE GenTree(_, _, _)
GenTree(depth, connectives, atoms) ==
    LET leaves == {<<"atom", a>> : a \in atoms}
    IN  IF depth <= 0 THEN leaves
        ELSE LET sub == GenTree(depth - 1, connectives, atoms)
                 un  == IF "unary" \in DOMAIN connectives
                        THEN {<<op, s>> : op \in Range(connectives.unary), s \in sub}
                        ELSE {}
                 bin == IF "binary" \in DOMAIN connectives
                        THEN {<<op, l, r>> : op \in Range(connectives.binary),
                                             l \in sub, r \in sub}
                        ELSE {}
             IN  leaves \cup un \cup bin

\* a generator that draws from every connective whatever it is given
PaletteAll(m, connectives) == ALL_CONNECTIVES

\* the connectives a module's generate_formula draws from: the finder's is
\* fixed to CONNECTIVES, the interactive one's is its second argument
Palette(m, connectives) == IF m = FINDER THEN ALL_CONNECTIVES ELSE connectives

\* the strings generate_formula can return
generate_formula(m, depth, connectives, atoms) ==
    {Show(t) : t \in GenTree(depth, Palette(m, connectives), atoms)}

(***************************************************************************)
(* formula_to_clauses.  w = [hard, top] is the WCNF's hard clause list and *)
(* the counter top_var_ref[0]; the result carries the literal, the state   *)
(* left behind and the exception raised, if any.                           *)
(***************************************************************************)
Return(literal, w) ==
    [exc |-> "none", lit |-> literal, hard |-> w.hard, top |-> w.top]
Raise(e, w) == [exc |-> e, lit |-> 0, hard |-> w.hard, top |-> w.top]
Session(r) == [hard |-> r.hard, top |-> r.top]

OpAnd == <<"&">>
OpOr == <<"|">>
OpImplies == <<"-", ">">>
OpIff == <<"<", "-", ">">>

\* the encoding with the clause (a | b | v) of the biconditional left out
TseitinOneSided(op_str, v, a, b) ==
    IF op_str = OpAnd THEN << <<-v, a>>, <<-v, b>>, <<-a, -b, v>> >>
    ELSE IF op_str = OpOr THEN << <<-v, a, b>>, <<-a, v>>, <<-b, v>> >>
    ELSE IF op_str = OpImplies THEN << <<-v, -a, b>>, <<a, v>>, <<-b, v>> >>
    ELSE IF op_str = OpIff
         THEN << <<-v, -a, b>>, <<-v, -b, a>>, <<-a, -b, v>> >>
    ELSE << >>

\* the encoding with the clause (a | v) of the implication left out
TseitinWeak(op_str, v, a, b) ==
    IF op_str = OpAnd THEN << <<-v, a>>, <<-v, b>>, <<-a, -b, v>> >>
    ELSE IF op_str = OpOr THEN << <<-v, a, b>>, <<-a, v>>, <<-b, v>> >>
    ELSE IF op_str = OpImplies THEN << <<-v, -a, b>>, <<-b, v>> >>
    ELSE IF op_str = OpIff
         THEN << <<-v, -a, b>>, <<-v, -b, a>>, <<a, b, v>>, <<-a, -b, v>> >>
    ELSE << >>

\* the clauses defining v <=> (a op b); none for any other op_str
Tseitin(op_str, v, a, b) ==
    IF op_str = OpAnd THEN << <<-v, a>>, <<-v, b>>, <<-a, -b, v>> >>
    ELSE IF op_str = OpOr THEN << <<-v, a, b>>, <<-a, v>>, <<-b, v>> >>
    ELSE IF op_str = OpImplies THEN << <<-v, -a, b>>, <<a, v>>, <<-b, v>> >>
    ELSE IF op_str = OpIff
         THEN << <<-v, -a, b>>, <<-v, -b, a>>, <<a, b, v>>, <<-a, -b, v>> >>
    ELSE << >>

\* v taken from the counter before it is incremented
EmitStale(op_str, a, rb) ==
    IF rb.exc # "none" THEN rb
    ELSE Return(rb.top,
                [hard |-> rb.hard \o Tseitin(op_str, rb.top, a, rb.lit),
                 top  |-> rb.top + 1])

\* top_var_ref[0] += 1; v = top_var_ref[0]; the clauses of op_str; return v
Emit(op_str, a, rb) ==
    IF rb.exc # "none" THEN rb
    ELSE Return(rb.top + 1,
                [hard |-> rb.hard \o Tseitin(op_str, rb.top + 1, a, rb.lit),
                 top  |-> rb.top + 1])

\* the loop of entailment_finder.py over enumerate(content), from index i
\* (0-based) with the balance so far: split_idx, or -1 when the loop ends
\* without a break
RECURSIVE ScanFrom(_, _, _)
ScanFrom(content, i, balance) ==
    IF i >= Len(content) THEN -1
    ELSE IF content[i + 1] = "(" THEN ScanFrom(content, i + 1, balance + 1)
    ELSE IF content[i + 1] = ")" THEN ScanFrom(content, i + 1, balance - 1)
    ELSE IF /\ content[i + 1] \in {" ", "&", "|", "-"}
            /\ balance = 0
            /\ \/ Slice(content, i, i + 3) = OpIff
               \/ Slice(content, i, i + 2) = OpImplies
               \/ content[i + 1] \in {"&", "|"}
         THEN i
    ELSE ScanFrom(content, i + 1, balance)

SplitIdx(content) == ScanFrom(content, 0, 0)

\* the operator of (<->|->|&|\|) that content holds at index j (0-based),
\* << >> when none does
OpAt(content, j) ==
    IF Slice(content, j, j + 3) = OpIff THEN OpIff
    ELSE IF Slice(content, j, j + 2) = OpImplies THEN OpImplies
    ELSE IF Slice(content, j, j + 1) = OpAnd THEN OpAnd
    ELSE IF Slice(content, j, j + 1) = OpOr THEN OpOr
    ELSE << >>

\* whether \s(<->|->|&|\|)\s matches at index i (0-based)
HitAt(content, i) ==
    /\ 0 <= i /\ i < Len(content)
    /\ content[i + 1] \in Whitespace
    /\ OpAt(content, i + 1) # << >>
    /\ i + 1 + Len(OpAt(content, i + 1)) < Len(content)
    /\ content[i + 2 + Len(OpAt(content, i + 1))] \in Whitespace

\* re.search(r'^(.*)\s(<->|->|&|\|)\s(.*)$', content): the first (.*) is
\* greedy, so the match is at the last index that matches; -1 for no match
RECURSIVE LastHit(_, _)
LastHit(content, i) ==
    IF i < 0 THEN -1
    ELSE IF HitAt(content, i) THEN i
    ELSE LastHit(content, i - 1)

RECURSIVE FormulaToClauses(_, _, _)

\* b = formula_to_clauses(right_str, ...), once a is there
BinaryRight(m, op_str, right_str, ra) ==
    IF ra.exc # "none" THEN ra
    ELSE Emit(op_str, ra.lit, FormulaToClauses(m, right_str, Session(ra)))

\* a = formula_to_clauses(left_str, ...); b = ...; the clauses
Binary(m, left_str, op_str, right_str, w) ==
    BinaryRight(m, op_str, right_str, FormulaToClauses(m, left_str, w))

\* the locals of the binary branch: op_idx is the index (0-based) in content
\* at which op_str was read
NoSplit(e) ==
    [exc |-> e, op_idx |-> -1, op_str |-> << >>, left_str |-> << >>,
     right_str |-> << >>]

\* left_str and right_str of entailment_finder.py, once op_str is there
FinderStrs(content, split_idx, op_str) ==
    [exc       |-> "none",
     op_idx    |-> split_idx,
     op_str    |-> op_str,
     left_str  |-> Strip(SliceTo(content, split_idx)),
     right_str |-> Strip(SliceFrom(content, split_idx + Len(op_str)))]

\* op_str = content[split_idx:].split()[0], an IndexError on an empty list
FinderLocals(content, split_idx) ==
    IF SplitIsEmpty(SliceFrom(content, split_idx)) THEN NoSplit("IndexError")
    ELSE FinderStrs(content, split_idx, SplitFirst(SliceFrom(content, split_idx)))

\* left_str, op_str, right_str = match.groups(), stripped; no match falls
\* through to the raise at the end of the function
RegexStrs(content, i, op_str) ==
    [exc       |-> "none",
     op_idx    |-> i + 1,
     op_str    |-> op_str,
     left_str  |-> Strip(SliceTo(content, i)),
     right_str |-> Strip(SliceFrom(content, i + 2 + Len(op_str)))]

RegexLocals(content, i) ==
    IF i < 0 THEN NoSplit("ValueError")
    ELSE RegexStrs(content, i, OpAt(content, i + 1))

\* how a module splits the content of a parenthesized binary formula
Locals(m, content) ==
    IF m = FINDER THEN FinderLocals(content, SplitIdx(content))
    ELSE RegexLocals(content, LastHit(content, Len(content) - 1))

BinaryBranch(m, loc, w) ==
    IF loc.exc # "none" THEN Raise(loc.exc, w)
    ELSE Binary(m, loc.left_str, loc.op_str, loc.right_str, w)

\* a negation that takes a variable of its own from the counter
NegateCounting(r) ==
    IF r.exc # "none" THEN r ELSE [r EXCEPT !.lit = 0 - r.lit, !.top = r.top + 1]

\* return -sub_literal
Negate(r) == IF r.exc # "none" THEN r ELSE [r EXCEPT !.lit = -r.lit]

\* the body of the if over a parenthesized formula_str
ParseContent(m, content, w) ==
    IF StartsWith(content, <<"~">>)
    THEN Negate(FormulaToClauses(m, SliceFrom(content, 1), w))
    ELSE BinaryBranch(m, Locals(m, content), w)

\* content = formula_str[1:-1], stripped by the regex parsers
Content(m, s) ==
    IF m = FINDER THEN Slice(s, 1, Len(s) - 1) ELSE Strip(Slice(s, 1, Len(s) - 1))

\* a parser that reads text without its pair of parentheses as the content
\* of a parenthesized formula
ParseLenient(m, s, w) ==
    IF Len(s) = 1 /\ s[1] \in DOMAIN ATOM_MAP(m) THEN Return(ATOM_MAP(m)[s[1]], w)
    ELSE IF StartsWith(s, <<"(">>) /\ EndsWith(s, <<")">>)
    THEN ParseContent(m, Content(m, s), w)
    ELSE ParseContent(m, s, w)

\* formula_to_clauses once formula_str is stripped
ParseStripped(m, s, w) ==
    IF Len(s) = 1 /\ s[1] \in DOMAIN ATOM_MAP(m) THEN Return(ATOM_MAP(m)[s[1]], w)
    ELSE IF StartsWith(s, <<"(">>) /\ EndsWith(s, <<")">>)
    THEN ParseContent(m, Content(m, s), w)
    ELSE Raise("ValueError", w)

\* the locals of the outermost call when it takes the binary branch
TopLocals(m, s) ==
    IF /\ ~(Len(s) = 1 /\ s[1] \in DOMAIN ATOM_MAP(m))
       /\ StartsWith(s, <<"(">>) /\ EndsWith(s, <<")">>)
       /\ ~StartsWith(Content(m, s), <<"~">>)
    THEN Locals(m, Content(m, s))
    ELSE NoSplit("none")

FormulaToClauses(m, str, w) == ParseStripped(m, Strip(str), w)

(***************************************************************************)
(* The SAT oracle: Glucose3(bootstrap_with=wcnf.hard).solve() is True      *)
(* exactly when some assignment satisfies every hard clause.  Decided by   *)
(* splitting on a literal (of a unit clause when there is one).            *)
(***************************************************************************)
Lits(clause) == {clause[i] : i \in 1..Len(clause)}

\* the clauses left once lit is made true
Assign(clauses, literal) == {c \ {-literal} : c \in {d \in clauses : literal \notin d}}

PickLiteral(clauses) ==
    IF \E c \in clauses : Cardinality(c) = 1
    THEN CHOOSE l \in UNION {c \in clauses : Cardinality(c) = 1} : TRUE
    ELSE CHOOSE l \in UNION clauses : TRUE

RECURSIVE Search(_)
SplitOn(clauses, literal) ==
    Search(Assign(clauses, literal)) \/ Search(Assign(clauses, -literal))

Search(clauses) ==
    IF {} \in clauses THEN FALSE
    ELSE IF clauses = {} THEN TRUE
    ELSE SplitOn(clauses, PickLiteral(clauses))

Solve(hard) == Search({Lits(hard[i]) : i \in 1..Len(hard)})

(***************************************************************************)
(* check_entailment and check_contradiction.  The result is the value      *)
(* returned ("True" / "False") or the exception that escaped, with the     *)
(* WCNF and the counter as the call left them.                             *)
(***************************************************************************)
\* a session that goes on from the clause set and the counter the previous
\* call left
NewSessionStale(m) == [hard |-> wcnf, top |-> top_var_list]

\* wcnf = WCNF(); top_var_list = [len(ATOM_MAP)]
NewSession(m) == [hard |-> << >>, top |-> Len(ATOMS(m))]

\* for p in premises: p_lit = formula_to_clauses(p, ...); wcnf.append([p_lit])
RECURSIVE AddPremises(_, _, _)
\* the loop with the unit clause [p_lit] never appended
AddPremiseDropped(m, rest, r) ==
    IF r.exc # "none" THEN r
    ELSE AddPremises(m, rest, Session(r))

\* the loop with [p_lit] appended for the first premise only
AddPremiseFirstOnly(m, rest, r) ==
    IF r.exc # "none" THEN r
    ELSE AddPremises(m, rest,
                     [hard |-> IF \E i \in 1..Len(r.hard) : Len(r.hard[i]) = 1
                               THEN r.hard ELSE Append(r.hard, <<r.lit>>),
                      top |-> r.top])

AddPremise(m, rest, r) ==
    IF r.exc # "none" THEN r
    ELSE AddPremises(m, rest, [hard |-> Append(r.hard, <<r.lit>>), top |-> r.top])

AddPremises(m, prems, w) ==
    IF prems = << >> THEN Return(0, w)
    ELSE AddPremise(m, Tail(prems), FormulaToClauses(m, Head(prems), w))

Bool(b) == IF b THEN "True" ELSE "False"

\* with Glucose3(bootstrap_with=wcnf.hard) as g: return not g.solve()
Decide(r) ==
    IF r.exc # "none" THEN [ret |-> r.exc, hard |-> r.hard, top |-> r.top]
    ELSE [ret |-> Bool(~Solve(r.hard)), hard |-> r.hard, top |-> r.top]

\* wcnf.append([-c_lit])
NegateConclusion(rc) ==
    IF rc.exc # "none" THEN Decide(rc)
    ELSE Decide([rc EXCEPT !.hard = Append(rc.hard, <<-rc.lit>>)])

\* c_lit = formula_to_clauses(conclusion, wcnf, top_var_list)
AddConclusion(m, concl, rp) ==
    IF rp.exc # "none" THEN Decide(rp)
    ELSE NegateConclusion(FormulaToClauses(m, concl, Session(rp)))

check_entailment(m, prems, concl) ==
    AddConclusion(m, concl, AddPremises(m, prems, NewSession(m)))

check_contradiction(m, prems) ==
    Decide(AddPremises(m, prems, NewSession(m)))

(***************************************************************************)
(* The generate-and-filter loops: entailment_finder.main,                  *)
(* EnhancedProblemBank.generate_new_problem, entailment_finder_interactive *)
(* .main and generate_problems_with_bundle.                                *)
(***************************************************************************)
FINDER_MAIN == "entailment_finder.main"
BANK == "EnhancedProblemBank.generate_new_problem"
INTERACTIVE_MAIN == "entailment_finder_interactive.main"
BUNDLE == "generate_problems_with_bundle"
Loops == {FINDER_MAIN, BANK, INTERACTIVE_MAIN, BUNDLE}

\* the module whose generate_formula / check_* a loop imports
ModuleOf(l) == IF l \in {FINDER_MAIN, BANK} THEN FINDER ELSE INTERACTIVE

\* the loops whose try block holds all three checks; the other two guard
\* only the first check_entailment
GuardsAll(l) == l \in {INTERACTIVE_MAIN, BUNDLE}

Exceptions == {"ValueError", "IndexError"}

\* the atoms of the formulas the loops and the calls of the model draw: the
\* first two of ATOMS
LoopAtoms == {"P", "Q"}

\* SYMBOL_MAP of symbol_standardizer.py: '|' becomes 'v', the rest is kept
standardize_symbols(formula) ==
    [i \in 1..Len(formula) |-> IF formula[i] = "|" THEN "v" ELSE formula[i]]

\* random.choice(NUM_PREMISES_RANGE), random.randint(*num_premises_range), 2
NumPremisesChoices(l, a) ==
    IF l = BUNDLE THEN {2}
    ELSE IF l = BANK THEN a.range[1]..a.range[2]
    ELSE {2, 3}

\* the lists of k elements of S
RECURSIVE Lists(_, _)
Lists(S, k) ==
    IF k = 0 THEN {<< >>}
    ELSE {Append(l, x) : l \in Lists(S, k - 1), x \in S} 

Distinct(l) == \A i, j \in 1..Len(l) : i # j => l[i] # l[j]

\* list(set(generate_formula(...) for _ in range(n))): the set, in any order;
\* it is shorter than n when two draws coincided
DrawnPremises(S, n) ==
    UNION {{l \in Lists(S, k) : Distinct(l)} : k \in (IF n = 0 THEN {0} ELSE 1..n)}

\* FILTER 3: for i in range(len(premises)): check_entailment(premises[:i] +
\* premises[i+1:], conclusion); the first True ends the loop
RECURSIVE NecessityFrom(_, _, _, _)
NecessityStep(m, prem, concl, i, r) ==
    IF r \in Exceptions THEN r
    ELSE IF r = "True" THEN "unnecessary"
    ELSE NecessityFrom(m, prem, concl, i + 1)

NecessityFrom(m, prem, concl, i) ==
    IF i > Len(prem) THEN "necessary"
    ELSE NecessityStep(m, prem, concl, i,
            check_entailment(m, SubSeq(prem, 1, i - 1) \o SubSeq(prem, i + 1, Len(prem)),
                             concl).ret)

\* the filter without "if len(premises) > 1"
NecessityOfAny(m, prem, concl) == NecessityFrom(m, prem, concl, 1)

Necessity(m, prem, concl) ==
    IF Len(prem) > 1 THEN NecessityFrom(m, prem, concl, 1) ELSE "necessary"

\* the body of one attempt after the draw: which continue, raise or append
\* ends it
Uncaught(l) == IF GuardsAll(l) THEN "parse_error" ELSE "crash"

AfterNecessity(l, nec) ==
    IF nec \in Exceptions THEN Uncaught(l)
    ELSE IF nec = "unnecessary" THEN "unnecessary"
    ELSE "accepted"

\* the filter with the continue on a contradiction left out
AfterContradictionKept(l, prem, concl, contra) ==
    IF contra \in Exceptions THEN Uncaught(l)
    ELSE AfterNecessity(l, Necessity(ModuleOf(l), prem, concl))

AfterContradiction(l, prem, concl, contra) ==
    IF contra \in Exceptions THEN Uncaught(l)
    ELSE IF contra = "True" THEN "contradictory"
    ELSE AfterNecessity(l, Necessity(ModuleOf(l), prem, concl))

\* the first check_entailment outside a try block where the others are
AfterValidityUnguarded(l, prem, concl, is_valid) ==
    IF is_valid \in Exceptions THEN Uncaught(l)
    ELSE IF is_valid = "False" THEN "invalid"
    ELSE AfterContradiction(l, prem, concl,
                            check_contradiction(ModuleOf(l), prem).ret)

\* the filter with "if is_valid" left out
AfterValidityAny(l, prem, concl, is_valid) ==
    IF is_valid \in Exceptions THEN "parse_error"
    ELSE AfterContradiction(l, prem, concl,
                            check_contradiction(ModuleOf(l), prem).ret)

AfterValidity(l, prem, concl, is_valid) ==
    IF is_valid \in Exceptions THEN "parse_error"
    ELSE IF is_valid = "False" THEN "invalid"
    ELSE AfterContradiction(l, prem, concl,
                            check_contradiction(ModuleOf(l), prem).ret)

\* the body with "if len(premises) < num_premises: continue" left out
FilterNoReroll(l, n, prem, concl) ==
    IF \E i \in 1..Len(prem) : prem[i] = concl THEN "trivial"
    ELSE AfterValidity(l, prem, concl,
                       check_entailment(ModuleOf(l), prem, concl).ret)

\* the body with "if conclusion in premises: continue" left out
FilterNoTrivial(l, n, prem, concl) ==
    IF Len(prem) < n THEN "reroll"
    ELSE AfterValidity(l, prem, concl,
                       check_entailment(ModuleOf(l), prem, concl).ret)

Filter(l, n, prem, concl) ==
    IF Len(prem) < n THEN "reroll"
    ELSE IF \E i \in 1..Len(prem) : prem[i] = concl THEN "trivial"
    ELSE AfterValidity(l, prem, concl,
                       check_entailment(ModuleOf(l), prem, concl).ret)

\* the entry a loop appends (or returns); the interactive main stores the
\* standardized strings
Problem(l, prem, concl) ==
    IF l = INTERACTIVE_MAIN
    THEN [premises   |-> [i \in 1..Len(prem) |-> standardize_symbols(prem[i])],
          conclusion |-> standardize_symbols(concl)]
    ELSE [premises |-> prem, conclusion |-> concl]

NoFormula == << >>
\* no direct call has been made
Idle ==
    /\ formula_str = NoFormula
    /\ locals = NoSplit("none")
    /\ lit = 0
    /\ ret = "none"
    /\ wcnf = << >>
    /\ top_var_list = 0
    /\ first = "none"

call_vars == <<formula_str, locals, lit, ret, wcnf, top_var_list, first>>
loop_vars == <<attempts, num_premises, found, outcome>>

\* the inputs of the loops
Bundles == {Bundle1, Bundle2, ALL_CONNECTIVES}
Ranges == {<<lo, hi>> : lo \in 1..MaxPremises, hi \in 1..MaxPremises} 

LoopArgs(l) ==
    IF l = FINDER_MAIN
    THEN {[connectives |-> ALL_CONNECTIVES, range |-> <<2, 3>>, depth |-> MAX_DEPTH]}
    ELSE IF l = BANK
    THEN {[connectives |-> ALL_CONNECTIVES, range |-> r, depth |-> MAX_DEPTH] :
            r \in {x \in Ranges : x[1] <= x[2]}}
    ELSE {[connectives |-> c, range |-> (IF l = BUNDLE THEN <<2, 2>> ELSE <<2, 3>>),
           depth |-> MAX_DEPTH] : c \in Bundles}

Init ==
    /\ loop \in Loops
    /\ args \in LoopArgs(loop)
    /\ pc = "head"
    /\ attempts = 0
    /\ num_premises = 0
    /\ premises = << >>
    /\ conclusion = NoFormula
    /\ found = << >>
    /\ outcome = "none"
    /\ Idle

\* the formulas a draw of the model can give
Pool(l, a) ==
    generate_formula(ModuleOf(l), Min(a.depth, LoopDepth), a.connectives, LoopAtoms)

\* attempts += 1; the draw of num_premises, of the premises and, unless the
\* premises came out short, of the conclusion
Draw ==
    /\ pc = "head"
    /\ Len(found) < MaxAttempts
    /\ attempts < MaxAttempts
    /\ LET pool == Pool(loop, args)
       IN  \E n \in {k \in NumPremisesChoices(loop, args) : k <= MaxPremises} :
             \E prem \in DrawnPremises(pool, n) :
               /\ num_premises' = n
               /\ premises' = prem
               /\ IF Len(prem) < n THEN conclusion' = NoFormula
                  ELSE conclusion' \in pool
    /\ attempts' = attempts + 1
    /\ pc' = "drawn"
    /\ UNCHANGED <<loop, args, found, outcome>>
    /\ UNCHANGED call_vars

\* the filters, and the append of a problem that passes them all; the locals
\* of the attempt are dead once it has ended
Attempt ==
    /\ pc = "drawn"
    /\ \E o \in {Filter(loop, num_premises, premises, conclusion)} :
           /\ outcome' = o
           /\ found' = IF o = "accepted"
                       THEN Append(found, Problem(loop, premises, conclusion))
                       ELSE found
           /\ attempts' = IF o = "accepted" /\ loop \in {FINDER_MAIN, INTERACTIVE_MAIN}
                          THEN 0 ELSE attempts
           /\ pc' = IF o = "crash" THEN "raised"
                    ELSE IF o = "accepted" /\ loop = BANK THEN "returned"
                    ELSE "head"
    /\ num_premises' = 0
    /\ premises' = << >>
    /\ conclusion' = NoFormula
    /\ UNCHANGED <<loop, args>>
    /\ UNCHANGED call_vars

Next == Draw \/ Attempt

Spec == Init /\ [][Next]_vars

(***************************************************************************)
(* The yardstick of the properties: the grammar the generators write and   *)
(* the classical truth tables, read off a formula string without any of    *)
(* the parsers above.                                                      *)
(***************************************************************************)
\* the index in content of the connective that lies outside every pair of
\* parentheses, 0 when there is none
RECURSIVE MainFrom(_, _, _)
MainFrom(content, i, depth) ==
    IF i > Len(content) THEN 0
    ELSE IF content[i] = "(" THEN MainFrom(content, i + 1, depth + 1)
    ELSE IF content[i] = ")" THEN MainFrom(content, i + 1, depth - 1)
    ELSE IF depth = 0 /\ content[i] \in {"&", "|", "v", "-", "<"} THEN i
    ELSE MainFrom(content, i + 1, depth)

MainIndex(content) == MainFrom(content, 1, 0)

\* the connective written at index k
MainOp(content, k) ==
    IF content[k] = "<" THEN OpIff
    ELSE IF content[k] = "-" THEN OpImplies
    ELSE <<content[k]>>

Inner(s) == SubSeq(s, 2, Len(s) - 1)
IsNegation(s) == Len(s) > 1 /\ s[2] = "~"
IsBinary(s) == Len(s) > 1 /\ s[2] # "~"

\* the connective and the operands of a binary formula of the grammar
MainParts(content, k) ==
    [op_idx    |-> k - 1,
     op_str    |-> MainOp(content, k),
     left_str  |-> SubSeq(content, 1, k - 2),
     right_str |-> SubSeq(content, k + Len(MainOp(content, k)) + 1, Len(content))]

Main(s) == MainParts(Inner(s), MainIndex(Inner(s)))

TruthTable(op_str, l, r) ==
    IF op_str = OpAnd THEN l /\ r
    ELSE IF op_str = OpImplies THEN l => r
    ELSE IF op_str = OpIff THEN l <=> r
    ELSE l \/ r

\* the truth value of a formula of the grammar under the valuation that makes
\* true exactly the atoms in val
RECURSIVE Truth(_, _)
TruthParts(parts, val) ==
    TruthTable(parts.op_str, Truth(parts.left_str, val), Truth(parts.right_str, val))

Truth(s, val) ==
    IF Len(s) = 1 THEN s[1] \in val
    ELSE IF IsNegation(s) THEN ~Truth(SubSeq(s, 3, Len(s) - 1), val)
    ELSE TruthParts(Main(s), val)

Valuations == SUBSET {"P", "Q", "R", "S"}
AllTrue(list, val) == \A i \in 1..Len(list) : Truth(list[i], val)
Entails(list, s) == \A val \in Valuations : AllTrue(list, val) => Truth(s, val)
Satisfiable(list) == \E val \in Valuations : AllTrue(list, val)
Without(list, i) == SubSeq(list, 1, i - 1) \o SubSeq(list, i + 1, Len(list))

(***************************************************************************)
(* Direct calls of formula_to_clauses on the strings generate_formula      *)
(* writes.                                                                 *)
(***************************************************************************)
PARSE == "formula_to_clauses"

\* the three strings test_biconditional_generation.py hands to its parser
BicondTest ==
    [premises   |-> <<Show(<<OpIff, <<"atom", "P">>, <<"atom", "Q">>>>),
                      Show(<<OpIff, <<"atom", "Q">>, <<"atom", "R">>>>)>>,
     conclusion |-> Show(<<OpIff, <<"atom", "P">>, <<"atom", "R">>>>)]

\* a module and the palette its generator is given
ParseArgs ==
    {[module |-> FINDER, connectives |-> ALL_CONNECTIVES]}
    \cup {[module |-> INTERACTIVE, connectives |-> c] : c \in Bundles}
    \cup {[module |-> BICOND, connectives |-> ALL_CONNECTIVES]}

\* every string generate_formula(MAX_DEPTH) of the module can return; the
\* test module has no generator of its own
Generated(a) ==
    IF a.module = BICOND
    THEN Range(BicondTest.premises) \cup {BicondTest.conclusion}
    ELSE generate_formula(a.module, MAX_DEPTH, a.connectives, Range(ATOMS(a.module)))

InitParse ==
    /\ loop = PARSE
    /\ args \in ParseArgs
    /\ pc = "call"
    /\ attempts = 0
    /\ num_premises = 0
    /\ premises = << >>
    /\ conclusion = NoFormula
    /\ found = << >>
    /\ outcome = "none"
    /\ formula_str \in Generated(args)
    /\ locals = NoSplit("none")
    /\ lit = 0
    /\ ret = "none"
    /\ wcnf = << >>
    /\ top_var_list = 0
    /\ first = "none"

\* formula_to_clauses(formula_str, wcnf, top_var_list) on a new WCNF and a
\* counter at len(ATOM_MAP)
Parse ==
    /\ loop = PARSE
    /\ pc = "call"
    /\ \E r \in {FormulaToClauses(args.module, formula_str, NewSession(args.module))} :
           /\ ret' = IF r.exc = "none" THEN "returned" ELSE r.exc
           /\ lit' = r.lit
           /\ wcnf' = r.hard
           /\ top_var_list' = r.top
    /\ locals' = TopLocals(args.module, Strip(formula_str))
    /\ pc' = "done"
    /\ UNCHANGED <<loop, args, premises, conclusion, formula_str, first>>
    /\ UNCHANGED loop_vars

NextParse == Parse

SpecParse == InitParse /\ [][NextParse]_vars

(***************************************************************************)
(* Direct calls of check_entailment and check_contradiction.               *)
(***************************************************************************)
CHECK_ENTAILMENT == "check_entailment"
CHECK_CONTRADICTION == "check_contradiction"
Checks == {CHECK_ENTAILMENT, CHECK_CONTRADICTION}

\* the formulas the calls of the model are given: what generate_formula
\* writes over the first two atoms, at a depth below MAX_DEPTH and at MAX_DEPTH
Shallow == generate_formula(FINDER, MAX_DEPTH - 1, ALL_CONNECTIVES, LoopAtoms)
Deep == generate_formula(FINDER, MAX_DEPTH, ALL_CONNECTIVES, LoopAtoms)

\* and over all four atoms, at a depth below MAX_DEPTH
Wide ==
    generate_formula(FINDER, MAX_DEPTH - 1, ALL_CONNECTIVES, Range(ATOMS(FINDER)))

\* the lists of at most n elements of S
ListsUpTo(S, n) == UNION {Lists(S, k) : k \in 0..n}

\* lists of shallow premises, and one deep formula on either side
PremiseLists == ListsUpTo(Shallow, MaxPremises) \cup {<<p>> : p \in Deep}

\* up to MaxPremises shallow premises and an atom, two shallow premises and a
\* shallow conclusion, a deep formula on either side, two formulas over all
\* the atoms, and the call of the test module
EntailmentInputs ==
    {[premises |-> p, conclusion |-> <<c>>] : p \in ListsUpTo(Shallow, MaxPremises),
                                              c \in LoopAtoms}
    \cup {[premises |-> p, conclusion |-> c] : p \in ListsUpTo(Shallow, 2),
                                                c \in Shallow}
    \cup {[premises |-> << >>, conclusion |-> c] : c \in Deep}
    \cup {[premises |-> <<p>>, conclusion |-> <<c>>] : p \in Deep, c \in LoopAtoms}
    \cup {[premises |-> <<p>>, conclusion |-> c] : p \in Wide, c \in Wide}
    \cup {BicondTest}

\* the test module has check_entailment only, and calls it once
CheckInputs(l, m) ==
    IF m = BICOND THEN (IF l = CHECK_ENTAILMENT THEN {BicondTest} ELSE {})
    ELSE IF l = CHECK_ENTAILMENT THEN EntailmentInputs
    ELSE {[premises |-> p, conclusion |-> NoFormula] : p \in PremiseLists}

InitCheck ==
    /\ loop \in Checks
    /\ args \in {[module |-> m] : m \in Modules}
    /\ pc = "call"
    /\ attempts = 0
    /\ num_premises = 0
    /\ \E input \in CheckInputs(loop, args.module) :
           /\ premises = input.premises
           /\ conclusion = input.conclusion
    /\ found = << >>
    /\ outcome = "none"
    /\ Idle

\* is_valid = check_entailment(premises, conclusion)
CallEntailment ==
    /\ loop = CHECK_ENTAILMENT
    /\ pc = "call"
    /\ \E r \in {check_entailment(args.module, premises, conclusion)} :
           /\ ret' = r.ret
           /\ wcnf' = r.hard
           /\ top_var_list' = r.top
    /\ pc' = "done"
    /\ UNCHANGED <<loop, args, premises, conclusion, formula_str, locals, lit, first>>
    /\ UNCHANGED loop_vars

\* check_contradiction(premises)
CallContradiction ==
    /\ loop = CHECK_CONTRADICTION
    /\ pc = "call"
    /\ \E r \in {check_contradiction(args.module, premises)} :
           /\ ret' = r.ret
           /\ wcnf' = r.hard
           /\ top_var_list' = r.top
    /\ pc' = "done"
    /\ UNCHANGED <<loop, args, premises, conclusion, formula_str, locals, lit, first>>
    /\ UNCHANGED loop_vars

NextCheck == CallEntailment \/ CallContradiction

SpecCheck == InitCheck /\ [][NextCheck]_vars

(***************************************************************************)
(* One process that makes the same call twice, with other calls between.   *)
(***************************************************************************)
REPEAT == "repeated call"

\* the repeated call: check_entailment or check_contradiction
RepeatArgs == {[module |-> m, call |-> c] : m \in {FINDER, INTERACTIVE}, c \in Checks}

\* the formulas of the calls of the model: one the scanning parser raises on
\* and the regex parsers read, one the regex parsers raise on and the scanning
\* parser reads
Between ==
    {Show(<<OpIff, <<"atom", "P">>, <<"atom", "Q">>>>),
     Show(<<OpImplies, <<"atom", "P">>, <<OpAnd, <<"atom", "Q">>, <<"atom", "P">>>>>>)}

\* the repeated call has at most one premise
RepeatInputs(a) ==
    IF a.call = CHECK_ENTAILMENT
    THEN {[premises |-> p, conclusion |-> x] : p \in ListsUpTo(Between, 1),
                                                x \in Between}
    ELSE {[premises |-> p, conclusion |-> NoFormula] : p \in ListsUpTo(Between, 1)}

\* the calls in between
OtherCalls ==
    {[call |-> CHECK_ENTAILMENT, premises |-> p, conclusion |-> c] :
        p \in ListsUpTo(Between, MaxPremises), c \in Between}
    \cup {[call |-> CHECK_CONTRADICTION, premises |-> p, conclusion |-> NoFormula] :
        p \in ListsUpTo(Between, MaxPremises)}

Call(m, c, prems, concl) ==
    IF c = CHECK_ENTAILMENT THEN check_entailment(m, prems, concl)
    ELSE check_contradiction(m, prems)

\* what the calls in between return (or raise) and leave, by module
OtherResults(m) ==
    {Call(m, o.call, o.premises, o.conclusion) : o \in OtherCalls}

InitRepeat ==
    /\ loop = REPEAT
    /\ args \in RepeatArgs
    /\ pc = "call"
    /\ attempts = 0
    /\ num_premises = 0
    /\ \E input \in RepeatInputs(args) :
           /\ premises = input.premises
           /\ conclusion = input.conclusion
    /\ found = << >>
    /\ outcome = "none"
    /\ Idle

\* the first of the two equal calls
CallFirst ==
    /\ loop = REPEAT
    /\ pc = "call"
    /\ \E r \in {Call(args.module, args.call, premises, conclusion)} :
           /\ ret' = r.ret
           /\ first' = r.ret
           /\ wcnf' = r.hard
           /\ top_var_list' = r.top
    /\ pc' = "between"
    /\ UNCHANGED <<loop, args, premises, conclusion, formula_str, locals, lit>>
    /\ UNCHANGED loop_vars

\* any other call of either function, a call that raises midway included
CallOther ==
    /\ loop = REPEAT
    /\ pc = "between"
    /\ \E r \in OtherResults(args.module) :
           /\ ret' = r.ret
           /\ outcome' = r.ret
           /\ wcnf' = r.hard
           /\ top_var_list' = r.top
    /\ UNCHANGED <<loop, args, pc, premises, conclusion, formula_str, locals, lit, first>>
    /\ UNCHANGED <<attempts, num_premises, found>>

\* the same call again
CallAgain ==
    /\ loop = REPEAT
    /\ pc = "between"
    /\ \E r \in {Call(args.module, args.call, premises, conclusion)} :
           /\ ret' = r.ret
           /\ wcnf' = r.hard
           /\ top_var_list' = r.top
    /\ pc' = "done"
    /\ UNCHANGED <<loop, args, premises, conclusion, formula_str, locals, lit, first>>
    /\ UNCHANGED loop_vars

NextRepeat == CallFirst \/ CallOther \/ CallAgain

SpecRepeat == InitRepeat /\ [][NextRepeat]_vars

(***************************************************************************)
(* Direct calls on formula text written by hand: malformed text, the       *)
(* other spelling of the connectives, the problems of                      *)
(* create_test_problems, and the instances of the logical laws.            *)
(***************************************************************************)
\* the other spelling of the connectives, as the replacements of
\* ascii_to_json.py and the problems of create_test_problems write them:
\* one character each, named here by its code point
Alias(op) ==
    CASE op = "&"   -> <<"U+2227">>
      [] op = "|"   -> <<"U+2228">>
      [] op = "->"  -> <<"U+2192">>
      [] op = "<->" -> <<"U+2194">>
      [] op = "~"   -> <<"U+00AC">>

\* a formula in the other spelling
RECURSIVE ShowAlias(_)
ShowAlias(t) ==
    IF t[1] = "atom" THEN <<t[2]>>
    ELSE IF t[1] = "~" THEN <<"(">> \o Alias("~") \o ShowAlias(t[2]) \o <<")">>
    ELSE <<"(">> \o ShowAlias(t[2]) \o <<" ">> \o Alias(t[1]) \o <<" ">>
              \o ShowAlias(t[3]) \o <<")">>

Atom(a) == <<"atom", a>>

\* the formulas of the grammar over the first two atoms, as trees
ShallowTrees == GenTree(MAX_DEPTH - 1, ALL_CONNECTIVES, LoopAtoms)
DeepTrees == GenTree(MAX_DEPTH, ALL_CONNECTIVES, LoopAtoms)

\* the kinds of text
MALFORMED == "malformed"
ALIAS == "alias"
SCENARIO_1 == "test_002"
SCENARIO_3 == "test_005"
REFLEXIVE == "reflexivity"
NEGATED == "formula and negation"
DE_MORGAN == "De Morgan"
UNPARENTHESIZED == "unparenthesized"

\* text with an unmatched parenthesis, with an operator token that is none of
\* the four, and with an empty subexpression
Unmatched ==
    {<<"(", "(", "P", " ", "&", " ", "Q", ")">>,
     <<"(", "P", " ", "&", " ", "Q", ")", ")">>,
     <<"(", "P", " ", "&", " ", "Q">>,
     <<"P", " ", "&", " ", "Q", ")">>}
Unrecognized ==
    {<<"(", "P", " ", "&", "x", " ", "Q", ")">>,
     <<"(", "P", " ", "&", "&", " ", "Q", ")">>,
     <<"(", "P", " ", "-", ">", "x", " ", "Q", ")">>,
     <<"(", "P", " ", "|", "|", " ", "Q", ")">>}
EmptySubexpression ==
    {<<"(", ")">>,
     <<"(", " ", ")">>,
     <<"(", "~", ")">>,
     <<"(", " ", "&", " ", "Q", ")">>,
     <<"(", "P", " ", "&", " ", ")">>,
     <<"(", "P", " ", "&", " ", "(", ")", ")">>}
Malformed == Unmatched \cup Unrecognized \cup EmptySubexpression


\* test_002 and test_005 of create_test_problems, as written there, with the
\* premise lists of the calls: all the premises, and all but the last
Scenario1 ==
    [premises   |-> <<ShowAlias(<<"->", Atom("P"), Atom("Q")>>),
                      ShowAlias(<<"->", Atom("Q"), Atom("R")>>),
                      <<"P">>>>,
     conclusion |-> <<"R">>]
Scenario3 ==
    [premises   |-> <<ShowAlias(<<"|", Atom("P"), Atom("Q")>>),
                      ShowAlias(<<"->", Atom("P"), Atom("R")>>),
                      ShowAlias(<<"->", Atom("Q"), Atom("R")>>)>>,
     conclusion |-> <<"R">>]

AllButLast(p) == [p EXCEPT !.premises = SubSeq(p.premises, 1, Len(p.premises) - 1)]

\* f"(~{f})"
Not(f) == <<"(">> \o Chars("~") \o f \o <<")">>

\* a binary formula without its own pair of parentheses
Bare(t) == Show(t[2]) \o <<" ">> \o Chars(t[1]) \o <<" ">> \o Show(t[3])

IsBinaryTree(t) == t[1] \notin {"atom", "~"}
BinaryOps == Range(ALL_CONNECTIVES.binary)

\* unparenthesized binary expressions: at the top level, as the left and as
\* the right operand of a parenthesized formula, and under a negation
BareTop == {Bare(t) : t \in {u \in DeepTrees : IsBinaryTree(u)}}
BareOfAtoms == {Bare(t) : t \in {u \in ShallowTrees : IsBinaryTree(u)}}
BareInside ==
    {<<"(">> \o b \o <<" ">> \o Chars(op) \o <<" ", a, ")">> :
        b \in BareOfAtoms, op \in BinaryOps, a \in LoopAtoms}
    \cup {<<"(", a, " ">> \o Chars(op) \o <<" ">> \o b \o <<")">> :
        b \in BareOfAtoms, op \in BinaryOps, a \in LoopAtoms}
    \cup {<<"(">> \o Chars("~") \o b \o <<")">> : b \in BareOfAtoms}
BareOverFour ==
    {<<"(">> \o Bare(<<"&", Atom("P"), Atom("Q")>>) \o <<" ", "|", " ", "R", ")">>,
     Bare(<<"&", <<"->", Atom("P"), Atom("Q")>>, <<"|", Atom("R"), Atom("S")>>>>)}
Unparenthesized == BareTop \cup BareInside \cup BareOverFour

TextModules == {FINDER, INTERACTIVE}

\* a call of formula_to_clauses on text; other is the same formula in the
\* spelling of the generators, where there is one
ParseInput(kind, text, other) ==
    [call |-> PARSE, text |-> kind, premises |-> << >>, conclusion |-> other,
     formula_str |-> text]

EntailmentInput(kind, prems, concl) ==
    [call |-> CHECK_ENTAILMENT, text |-> kind, premises |-> prems,
     conclusion |-> concl, formula_str |-> NoFormula]

ContradictionInput(kind, prems) ==
    [call |-> CHECK_CONTRADICTION, text |-> kind, premises |-> prems,
     conclusion |-> NoFormula, formula_str |-> NoFormula]

\* malformed text given to formula_to_clauses, and as a premise, as the
\* conclusion, and after a premise that parses
MalformedInputs ==
    {ParseInput(MALFORMED, bad, NoFormula) : bad \in Malformed}
    \cup
    {EntailmentInput(MALFORMED, <<bad>>, <<"P">>) : bad \in Malformed}
    \cup {EntailmentInput(MALFORMED, << <<"P">> >>, bad) : bad \in Malformed}
    \cup {ContradictionInput(MALFORMED, <<bad>>) : bad \in Malformed}
    \cup {ContradictionInput(MALFORMED, << <<"P">>, bad >>) : bad \in Malformed}

AliasInputs == {ParseInput(ALIAS, ShowAlias(t), Show(t)) : t \in DeepTrees}

ScenarioInputs ==
    {EntailmentInput(SCENARIO_1, p.premises, p.conclusion) :
        p \in {Scenario1, AllButLast(Scenario1)}}
    \cup {EntailmentInput(SCENARIO_3, p.premises, p.conclusion) :
        p \in {Scenario3, AllButLast(Scenario3)}}

\* check_entailment([f], f) and check_contradiction([f, "(~f)"])
LawInputs ==
    {EntailmentInput(REFLEXIVE, <<f>>, f) : f \in Deep}
    \cup {ContradictionInput(NEGATED, <<f, Not(f)>>) : f \in Deep}

\* "(~(a & b))" and "((~a) | (~b))", either as the premise
DeMorganLeft(a, b) == Not(<<"(">> \o a \o <<" ", "&", " ">> \o b \o <<")">>)
DeMorganRight(a, b) == <<"(">> \o Not(a) \o <<" ", "|", " ">> \o Not(b) \o <<")">>
DeMorganInputs ==
    {EntailmentInput(DE_MORGAN, <<DeMorganLeft(a, b)>>, DeMorganRight(a, b)) :
        a \in Shallow, b \in Shallow}
    \cup {EntailmentInput(DE_MORGAN, <<DeMorganRight(a, b)>>, DeMorganLeft(a, b)) :
        a \in Shallow, b \in Shallow}

UnparenthesizedInputs ==
    {ParseInput(UNPARENTHESIZED, u, NoFormula) : u \in Unparenthesized}

TextInputs ==
    MalformedInputs \cup AliasInputs \cup ScenarioInputs \cup LawInputs
    \cup DeMorganInputs \cup UnparenthesizedInputs

InitText ==
    /\ \E input \in TextInputs, m \in TextModules :
           /\ loop = input.call
           /\ args = [module |-> m, text |-> input.text]
           /\ premises = input.premises
           /\ conclusion = input.conclusion
           /\ formula_str = input.formula_str
    /\ pc = "call"
    /\ attempts = 0
    /\ num_premises = 0
    /\ found = << >>
    /\ outcome = "none"
    /\ locals = NoSplit("none")
    /\ lit = 0
    /\ ret = "none"
    /\ wcnf = << >>
    /\ top_var_list = 0
    /\ first = "none"

NextText == Parse \/ CallEntailment \/ CallContradiction

SpecText == InitText /\ [][NextText]_vars

(***************************************************************************)
(* The retry loops followed over many attempts: the four loops above and   *)
(* generate_problems_batch, each iteration as a whole, on draws that pass  *)
(* no filter.                                                              *)
(***************************************************************************)
BATCH == "generate_problems_batch"
RetryLoops == Loops \cup {BATCH}

\* TARGET_ENTAILMENTS of the two mains, target_entailments of
\* generate_problems_with_bundle
Target(l) == IF l = INTERACTIVE_MAIN THEN 50 ELSE 10

\* max_attempts of generate_new_problem
max_attempts == 100

\* the condition of the while statement of each loop
WhileCondition(l, a, n, problems) ==
    IF l = BANK THEN n < max_attempts
    ELSE IF l = BATCH
    THEN Len(problems) < a.num_problems /\ n < a.num_problems * 10
    ELSE Len(problems) < Target(l)

\* the atoms of the draws
RetryAtoms == {"P", "Q", "R"}

RetryPool(l, a) ==
    generate_formula(ModuleOf(l), Min(a.depth, RetryDepth), a.connectives, RetryAtoms)

\* generate_problems_batch(num_problems, bundle) takes the palette of its bundle
RetryArgs(l) ==
    IF l = BATCH
    THEN {[connectives |-> c, range |-> <<2, 2>>, depth |-> MAX_DEPTH,
           num_problems |-> k] : c \in Bundles, k \in 0..2}
    ELSE LoopArgs(l)

InitRetry ==
    /\ loop \in RetryLoops
    /\ args \in RetryArgs(loop)
    /\ pc = "head"
    /\ attempts = 0
    /\ num_premises = 0
    /\ premises = << >>
    /\ conclusion = NoFormula
    /\ found = << >>
    /\ outcome = "none"
    /\ Idle

\* one iteration of a loop, from attempts += 1 to the continue, the raise, the
\* append or the return that ends it
Iterate ==
    /\ pc = "head"
    /\ loop # BATCH
    /\ WhileCondition(loop, args, attempts, found)
    /\ attempts < MaxRetries
    /\ \E n \in NumPremisesChoices(loop, args) :
         \E prem \in DrawnPremises(RetryPool(loop, args), n) :
           \E concl \in RetryPool(loop, args) :
             \E o \in {Filter(loop, n, prem, concl)} :
               /\ outcome' = o
               /\ found' = IF o = "accepted"
                           THEN Append(found, Problem(loop, prem, concl))
                           ELSE found
               /\ attempts' = IF o = "accepted" /\ loop \in {FINDER_MAIN, INTERACTIVE_MAIN}
                              THEN 0 ELSE attempts + 1
               /\ pc' = IF o = "crash" THEN "raised"
                        ELSE IF o = "accepted" /\ loop = BANK THEN "returned"
                        ELSE "head"
    /\ UNCHANGED <<loop, args, num_premises, premises, conclusion>>
    /\ UNCHANGED call_vars

\* one iteration of generate_problems_batch: attempts += 1, and the call of
\* generate_formula, a name its module never imports
IterateBatch ==
    /\ pc = "head"
    /\ loop = BATCH
    /\ WhileCondition(loop, args, attempts, found)
    /\ attempts' = attempts + 1
    /\ outcome' = "NameError"
    /\ pc' = "raised"
    /\ UNCHANGED <<loop, args, num_premises, premises, conclusion, found>>
    /\ UNCHANGED call_vars

\* the while condition is false: return None, or the problems collected
Exit ==
    /\ pc = "head"
    /\ ~WhileCondition(loop, args, attempts, found)
    /\ pc' = "returned"
    /\ UNCHANGED <<loop, args, num_premises, premises, conclusion>>
    /\ UNCHANGED loop_vars
    /\ UNCHANGED call_vars

NextRetry == Iterate \/ IterateBatch \/ Exit

SpecRetry == InitRetry /\ [][NextRetry]_vars

(***************************************************************************)
(* Direct calls of generate_formula, for any depth and any palette.        *)
(***************************************************************************)
GENERATE == "generate_formula"

\* the exceptions a call of generate_formula(depth, connectives) can end in:
\* random.choice(connectives[op_type]) raises IndexError on an empty list
RECURSIVE GenRaises(_, _)
GenRaises(depth, connectives) ==
    IF depth <= 0 \/ DOMAIN connectives = {} THEN {}
    ELSE {"IndexError" : k \in {j \in DOMAIN connectives : connectives[j] = << >>}}
         \cup (IF \E k \in DOMAIN connectives : connectives[k] # << >>
               THEN GenRaises(depth - 1, connectives)
               ELSE {})

\* what a call of a module's generate_formula can return or raise
GenOutcomes(m, depth, connectives, atoms) ==
    {[exc |-> "none", str |-> s] : s \in generate_formula(m, depth, connectives, atoms)}
    \cup {[exc |-> e, str |-> NoFormula] : e \in GenRaises(depth, Palette(m, connectives))}

\* the palettes: 'unary' and 'binary' each absent, empty, or a list of
\* connectives
NoEntry == [k \in {} |-> << >>]
UnaryEntries == {NoEntry, [unary |-> << >>], [unary |-> <<"~">>]}
BinaryEntries ==
    {NoEntry, [binary |-> << >>], [binary |-> <<"|">>], Bundle1, Bundle2}
Palettes == {u @@ b : u \in UnaryEntries, b \in BinaryEntries}

\* the depths of the calls of the model
Depths == (0 - 1)..MAX_DEPTH

\* the finder's generate_formula takes the depth only
GenerateArgs ==
    {[module |-> FINDER, depth |-> d, connectives |-> ALL_CONNECTIVES] : d \in Depths}
    \cup {[module |-> INTERACTIVE, depth |-> d, connectives |-> c] :
            d \in Depths, c \in Palettes}

InitGenerate ==
    /\ loop = GENERATE
    /\ args \in GenerateArgs
    /\ pc = "call"
    /\ attempts = 0
    /\ num_premises = 0
    /\ premises = << >>
    /\ conclusion = NoFormula
    /\ found = << >>
    /\ outcome = "none"
    /\ Idle

\* a generator whose recursion ends one level late
GenerateDeeper ==
    /\ loop = GENERATE
    /\ pc = "call"
    /\ \E o \in GenOutcomes(args.module, Min(args.depth + 1, MAX_DEPTH),
                             args.connectives, LoopAtoms) :
           /\ formula_str' = o.str
           /\ ret' = IF o.exc = "none" THEN "returned" ELSE o.exc
    /\ pc' = "done"
    /\ UNCHANGED <<loop, args, premises, conclusion, locals, lit, wcnf, top_var_list, first>>
    /\ UNCHANGED loop_vars

\* formula_str = generate_formula(depth, connectives), for every outcome of
\* the random choices
Generate ==
    /\ loop = GENERATE
    /\ pc = "call"
    /\ \E o \in GenOutcomes(args.module, args.depth, args.connectives, LoopAtoms) :
           /\ formula_str' = o.str
           /\ ret' = IF o.exc = "none" THEN "returned" ELSE o.exc
    /\ pc' = "done"
    /\ UNCHANGED <<loop, args, premises, conclusion, locals, lit, wcnf, top_var_list, first>>
    /\ UNCHANGED loop_vars

\* the caller parses what it was given
ParseGenerated ==
    /\ loop = GENERATE
    /\ pc = "done"
    /\ ret = "returned"
    /\ \E r \in {FormulaToClauses(args.module, formula_str, NewSession(args.module))} :
           /\ ret' = IF r.exc = "none" THEN "parsed" ELSE r.exc
           /\ lit' = r.lit
           /\ wcnf' = r.hard
           /\ top_var_list' = r.top
    /\ pc' = "parsed"
    /\ UNCHANGED <<loop, args, premises, conclusion, formula_str, locals, first>>
    /\ UNCHANGED loop_vars

NextGenerate == Generate \/ ParseGenerated

SpecGenerate == InitGenerate /\ [][NextGenerate]_vars

(***************************************************************************)
(* Properties of the two check functions, under SpecCheck.                 *)
(***************************************************************************)
Called(l) == loop = l /\ pc = "done"

\* C1: for inputs its parser accepts, check_entailment returns True exactly
\* when every valuation of the atoms that makes all the premises true makes
\* the conclusion true; with no premises that is the validity of the
\* conclusion.
C1_EntailmentIsSemantic ==
    (Called(CHECK_ENTAILMENT) /\ ret \notin Exceptions)
        => /\ ret \in {"True", "False"}
           /\ (ret = "True") <=> Entails(premises, conclusion)

\* two premises that entail a conclusion neither entails alone
C1_Witness ==
    /\ Called(CHECK_ENTAILMENT)
    /\ ret = "True"
    /\ Len(premises) = 2
    /\ ~Entails(<<premises[1]>>, conclusion)
    /\ ~Entails(<<premises[2]>>, conclusion)

\* C2: for inputs its parser accepts, check_contradiction returns True
\* exactly when no valuation makes all the premises true; for the empty list
\* it returns False.
C2_ContradictionIsUnsatisfiability ==
    (Called(CHECK_CONTRADICTION) /\ ret \notin Exceptions)
        => /\ ret \in {"True", "False"}
           /\ (ret = "True") <=> ~Satisfiable(premises)
           /\ premises = << >> => ret = "False"

\* two premises, each satisfiable, that no valuation makes true together
C2_Witness ==
    /\ Called(CHECK_CONTRADICTION)
    /\ ret = "True"
    /\ Len(premises) = 2
    /\ Satisfiable(<<premises[1]>>)
    /\ Satisfiable(<<premises[2]>>)

Parsed == loop = PARSE /\ pc = "done"

\* the outermost call split its formula where the grammar has it split
SplitAsWritten ==
    /\ locals.exc = "none"
    /\ locals.op_idx = Main(formula_str).op_idx
    /\ locals.op_str = Main(formula_str).op_str
    /\ locals.left_str = Main(formula_str).left_str
    /\ locals.right_str = Main(formula_str).right_str

\* the outermost call took the -> inside a <-> for its operator
SplitInsideIff ==
    /\ locals.exc = "none"
    /\ locals.op_str = OpImplies
    /\ locals.op_idx >= 1
    /\ Inner(formula_str)[locals.op_idx] = "<"

\* the biconditional of two atoms
IsAtomicIff(s) ==
    /\ IsBinary(s)
    /\ Main(s).op_str = OpIff
    /\ Len(Main(s).left_str) = 1
    /\ Len(Main(s).right_str) = 1

\* C8: every copy of the parser reads <-> as one operator token: no formula
\* is split at the -> inside a <->, and the biconditional of two atoms is
\* split at its <-> and parsed without an exception.
C8_BiconditionalIsOneToken ==
    (Parsed /\ IsBinary(formula_str))
        => /\ ~SplitInsideIff
           /\ IsAtomicIff(formula_str) => (SplitAsWritten /\ ret = "returned")

\* C9: in each finder module, every string its generate_formula can return
\* for a depth of at most MAX_DEPTH, over the module's atoms and palette, is
\* parsed by the module's own formula_to_clauses without an exception.
C9_GeneratedFormulasParse ==
    (Parsed /\ args.module \in {FINDER, INTERACTIVE}) => ret \notin Exceptions

\* C10: a parenthesized binary formula is split at the one binary operator
\* that lies at parenthesis depth zero of its content, whichever operand is
\* itself a parenthesized formula.
C10_SplitAtDepthZero ==
    (Parsed /\ IsBinary(formula_str)) => SplitAsWritten

(***************************************************************************)
(* Properties of the problems the loops accept, under Spec.                *)
(***************************************************************************)
Accepted == {found[i] : i \in 1..Len(found)}

\* C3: the premises of every problem a generate-and-filter loop accepts
\* entail its conclusion.
C3_AcceptedEntails ==
    \A e \in Accepted : Entails(e.premises, e.conclusion)

\* a loop has accepted two premises and a conclusion that is not valid by
\* itself
C3_Witness ==
    /\ outcome = "accepted"
    /\ \E e \in Accepted : Len(e.premises) = 2 /\ ~Entails(<< >>, e.conclusion)

\* C4: in every problem a generate-and-filter loop accepts every premise is
\* necessary: the premises without it do not entail the conclusion; that
\* holds for a single accepted premise too.
C4_EveryPremiseNecessary ==
    \A e \in Accepted :
        \A i \in 1..Len(e.premises) : ~Entails(Without(e.premises, i), e.conclusion)

\* C5: some valuation makes all the premises of an accepted problem true.
C5_AcceptedSatisfiable ==
    \A e \in Accepted : Satisfiable(e.premises)

\* a loop has accepted two premises that some valuation makes false
C5_Witness ==
    /\ outcome = "accepted"
    /\ \E e \in Accepted :
           /\ Len(e.premises) = 2
           /\ \E val \in Valuations : ~AllTrue(e.premises, val)

\* C6: the conclusion string of an accepted problem is none of its premise
\* strings.
C6_ConclusionIsNoPremise ==
    \A e \in Accepted :
        \A i \in 1..Len(e.premises) : e.premises[i] # e.conclusion

\* a loop has accepted a conclusion that says the same as a premise in
\* another string
C6_Witness ==
    /\ outcome = "accepted"
    /\ \E e \in Accepted :
         \E i \in 1..Len(e.premises) :
           /\ Entails(<<e.premises[i]>>, e.conclusion)
           /\ Entails(<<e.conclusion>>, e.premises[i])

(***************************************************************************)
(* Properties of the calls on hand-written text, under SpecText.           *)
(***************************************************************************)
CalledOn(kind) == pc = "done" /\ args.text = kind

\* C11: on malformed formula text (an unmatched parenthesis, an operator token
\* that is none of the four, an empty subexpression), as a premise or as the
\* conclusion, check_entailment and check_contradiction raise a parse error:
\* they return neither True nor False, and no variable without defining
\* clauses stands for the malformed subformula.
C11_MalformedTextRaises ==
    (CalledOn(MALFORMED) /\ loop \in Checks) => ret \in Exceptions

\* the call returned the literal and left the clauses of the result r
SameEncoding(r) == r.exc = "none" /\ lit = r.lit /\ wcnf = r.hard

\* C12: the parser accepts a formula in either spelling of the connectives,
\* and the two spellings of one formula give the same literal and the same
\* clauses.
C12_AliasesParseAlike ==
    (CalledOn(ALIAS) /\ loop = PARSE)
        => /\ ret = "returned"
           /\ SameEncoding(FormulaToClauses(args.module, conclusion,
                                            NewSession(args.module)))

\* C13: check_entailment on the three premises of test_002 and its conclusion
\* returns True, and on the premises without the last one, "P", it returns
\* False: the premise "P" is necessary.
C13_ChainNeedsItsAtom ==
    (CalledOn(SCENARIO_1) /\ loop = CHECK_ENTAILMENT)
        => /\ premises = Scenario1.premises => ret = "True"
           /\ premises = AllButLast(Scenario1).premises => ret = "False"

\* C14: check_entailment on the three premises of test_005 and its conclusion
\* returns True, and on the first two premises alone it returns False.
C14_CasesNeedBothBranches ==
    (CalledOn(SCENARIO_3) /\ loop = CHECK_ENTAILMENT)
        => /\ premises = Scenario3.premises => ret = "True"
           /\ premises = AllButLast(Scenario3).premises => ret = "False"

\* C15: reflexivity: for every formula f of the grammar, with any connective
\* and of any depth up to MAX_DEPTH, check_entailment([f], f) returns True.
C15_Reflexivity ==
    (CalledOn(REFLEXIVE) /\ loop = CHECK_ENTAILMENT) => ret = "True"

\* C16: for every formula f of the grammar, the atom P among them,
\* check_contradiction([f, "(~f)"]) returns True.
C16_FormulaAndNegationContradict ==
    (CalledOn(NEGATED) /\ loop = CHECK_CONTRADICTION) => ret = "True"

\* C17: De Morgan: for all formulas a and b of the grammar, check_entailment
\* returns True for the premise "(~(a & b))" and the conclusion
\* "((~a) | (~b))", and for the two exchanged.
C17_DeMorgan ==
    (CalledOn(DE_MORGAN) /\ loop = CHECK_ENTAILMENT) => ret = "True"

(***************************************************************************)
(* Properties of the generator, under SpecParse.                           *)
(***************************************************************************)
\* whether the connective op is written somewhere in the string s
HasToken(s, op) ==
    IF op = "<->" THEN \E i \in 1..Len(s) : s[i] = "<"
    ELSE IF op = "->" THEN \E i \in 1..Len(s) : s[i] = "-" /\ (i = 1 \/ s[i - 1] # "<")
    ELSE \E i \in 1..Len(s) : s[i] = op

Written(s) == {op \in {"&", "|", "->", "<->", "~"} : HasToken(s, op)}

\* the connectives of a palette
Allowed(connectives) == UNION {Range(connectives[k]) : k \in DOMAIN connectives}

\* C18: generate_formula(depth, connectives) of entailment_finder_interactive
\* writes only connectives of the palette it is given, whatever the random
\* choices: with {'binary': ['&', '->']} and depth 2 no returned formula holds
\* a |, a <-> or a ~.
C18_OnlyPaletteConnectives ==
    (loop = PARSE /\ args.module = INTERACTIVE)
        => /\ Written(formula_str) \subseteq Allowed(args.connectives)
           /\ args.connectives = Bundle1
                => \A i \in 1..Len(formula_str) : formula_str[i] \notin {"|", "<", "~"}

\* a formula of depth 2 drawn from {'binary': ['&', '->']} that holds both
C18_Witness ==
    /\ loop = PARSE
    /\ args.module = INTERACTIVE
    /\ args.connectives = Bundle1
    /\ Written(formula_str) = {"&", "->"}
    /\ formula_str[2] = "("

(***************************************************************************)
(* Properties of the parsers on hand-written text, under SpecText.         *)
(***************************************************************************)
\* C19: a binary expression without its own pair of parentheses is rejected
\* with a parse error wherever it stands, at the top level, as an operand or
\* under a negation: formula_to_clauses of neither finder module returns a
\* literal for "P & Q", "(P & Q | R)" or "(P -> Q) & (R | S)".
C19_UnparenthesizedIsRejected ==
    (CalledOn(UNPARENTHESIZED) /\ loop = PARSE)
        => /\ ret = "ValueError"
           /\ lit = 0

\* an expression that begins with "(" and ends with ")" and still lacks its
\* own pair of parentheses has been rejected
C19_Witness ==
    /\ CalledOn(UNPARENTHESIZED)
    /\ loop = PARSE
    /\ formula_str \in BareTop
    /\ StartsWith(formula_str, <<"(">>)
    /\ EndsWith(formula_str, <<")">>)
    /\ ret = "ValueError"

(***************************************************************************)
(* Properties of the retry loops, under SpecRetry.                         *)
(***************************************************************************)
\* the maximum attempt count of a loop: num_problems * 10 for
\* generate_problems_batch, max_attempts for generate_new_problem; the three
\* loops that have none in the source are measured against max_attempts
AttemptBudget(l, a) == IF l = BATCH THEN a.num_problems * 10 ELSE max_attempts

\* C20: every generate-and-filter retry loop is bounded by a maximum attempt
\* count: even when no candidate ever passes the filters, no loop makes more
\* attempts than its budget, whether it is generate_new_problem,
\* generate_problems_batch, one of the two mains or
\* generate_problems_with_bundle.
C20_RetryLoopsBounded ==
    attempts <= AttemptBudget(loop, args)

(***************************************************************************)
(* Properties of the calls of generate_formula, under SpecGenerate.        *)
(***************************************************************************)
Drawn(m) == loop = GENERATE /\ pc = "done" /\ args.module = m

\* C21: generate_formula(depth, connectives) never raises: for every depth and
\* every palette whose 'unary' and 'binary' entries are absent or are lists,
\* empty ones included, of the defined connectives it returns a string, and a
\* bare atom when the palette holds no connective.
C21_GenerationNeverRaises ==
    Drawn(INTERACTIVE)
        => /\ ret = "returned"
           /\ Allowed(args.connectives) = {} => Len(formula_str) = 1

\* the deepest nesting of parentheses in a string
RECURSIVE NestingFrom(_, _, _)
NestingFrom(s, i, balance) ==
    IF i > Len(s) THEN 0
    ELSE IF s[i] = "(" THEN Max(balance + 1, NestingFrom(s, i + 1, balance + 1))
    ELSE IF s[i] = ")" THEN NestingFrom(s, i + 1, balance - 1)
    ELSE NestingFrom(s, i + 1, balance)

Nesting(s) == NestingFrom(s, 1, 0)

\* the strings of the grammar: an atom, "(~X)" or "(X op Y)" with one blank on
\* either side of the connective
RECURSIVE IsFormula(_)
IsBinaryFormula(content, k) ==
    /\ k > 2
    /\ content[k - 1] = " "
    /\ k + Len(MainOp(content, k)) < Len(content)
    /\ SubSeq(content, k, k + Len(MainOp(content, k)) - 1) = MainOp(content, k)
    /\ content[k + Len(MainOp(content, k))] = " "
    /\ IsFormula(MainParts(content, k).left_str)
    /\ IsFormula(MainParts(content, k).right_str)

IsFormula(s) ==
    IF Len(s) = 1 THEN s[1] \in {"P", "Q", "R", "S"}
    ELSE /\ Len(s) > 3
         /\ s[1] = "(" /\ s[Len(s)] = ")"
         /\ IF s[2] = "~" THEN IsFormula(SubSeq(s, 3, Len(s) - 1))
            ELSE IsBinaryFormula(Inner(s), MainIndex(Inner(s)))

\* no entry of the palette is an empty list
NoEmptyEntry(connectives) == \A k \in DOMAIN connectives : connectives[k] # << >>

\* C27: generate_formula called with depth d returns a fully parenthesized
\* formula whose connectives are nested at most max(d, 0) deep: a bare atom
\* for d <= 0, and otherwise an atom, a negation of a formula of depth d-1 or
\* a binary formula of two formulas of depth d-1.
C27_GeneratedDepthIsBounded ==
    (loop = GENERATE /\ pc = "done" /\ NoEmptyEntry(Palette(args.module, args.connectives)))
        => /\ ret = "returned"
           /\ IsFormula(formula_str)
           /\ Nesting(formula_str) <= Max(args.depth, 0)
           /\ args.depth <= 0 => Len(formula_str) = 1

\* a call with depth 2 has returned a binary formula of a negation
C27_Witness ==
    /\ loop = GENERATE
    /\ pc = "done"
    /\ ret = "returned"
    /\ args.depth = MAX_DEPTH
    /\ Nesting(formula_str) = MAX_DEPTH
    /\ StartsWith(formula_str, <<"(", "(", "~">>)

(***************************************************************************)
(* Properties of the encoding, under SpecParse.                            *)
(***************************************************************************)
\* whether a literal is true under the assignment that makes true exactly
\* the variables in val
Holds(literal, val) == IF literal > 0 THEN literal \in val ELSE (0 - literal) \notin val

Satisfies(val, clauses) ==
    \A i \in 1..Len(clauses) : \E j \in 1..Len(clauses[i]) : Holds(clauses[i][j], val)

\* the clauses are true of exactly the assignments in which v has the value
\* of (a op b)
Defines(clauses, op_str, v, a, b) ==
    \A val \in SUBSET {Abs(a), Abs(b), v} :
        Satisfies(val, clauses)
            <=> (Holds(v, val) <=> TruthTable(op_str, Holds(a, val), Holds(b, val)))

\* the clause lists of the encoding rules, by connective
RuleClauses(op_str, v, a, b) ==
    IF op_str = OpAnd THEN {{-v, a}, {-v, b}, {-a, -b, v}}
    ELSE IF op_str = OpOr THEN {{-v, a, b}, {-a, v}, {-b, v}}
    ELSE IF op_str = OpImplies THEN {{-v, -a, b}, {a, v}, {-b, v}}
    ELSE {{-v, -a, b}, {-v, -b, a}, {a, b, v}, {-a, -b, v}}

\* the clauses appended for the outermost node, once its operands, with the
\* results ra and rb, are encoded
NodeClauses(rb) == SubSeq(wcnf, Len(rb.hard) + 1, Len(wcnf))

NodeIsDefined(ra, rb) ==
    /\ Defines(NodeClauses(rb), locals.op_str, lit, ra.lit, rb.lit)
    /\ {Lits(NodeClauses(rb)[i]) : i \in 1..Len(NodeClauses(rb))}
         = RuleClauses(locals.op_str, lit, ra.lit, rb.lit)

RightOperand(m, ra) == FormulaToClauses(m, locals.right_str, Session(ra))
LeftOperand(m) == FormulaToClauses(m, locals.left_str, NewSession(m))

\* C22: for every binary node with the operand literals a and b and the new
\* variable v, the clauses formula_to_clauses appends are true of exactly the
\* assignments to a, b and v in which v has the value of the connective's
\* truth function of a and b, and they are the clauses of the encoding rule
\* of the connective.
C22_NodeClausesDefineConnective ==
    (Parsed /\ ret = "returned" /\ IsBinary(formula_str))
        => \E ra \in {LeftOperand(args.module)} :
             \E rb \in {RightOperand(args.module, ra)} : NodeIsDefined(ra, rb)

\* an implication of a binary formula and a negation has been encoded
C22_Witness ==
    /\ Parsed
    /\ ret = "returned"
    /\ IsBinary(formula_str)
    /\ locals.op_str = OpImplies
    /\ Len(locals.left_str) > 2
    /\ StartsWith(locals.right_str, <<"(", "~">>)
    /\ Len(wcnf) = 6

(***************************************************************************)
(* Properties of the encoding sessions, under SpecCheck.                   *)
(***************************************************************************)
\* the occurrences in a string of the characters of a set
Count(s, chars) == Cardinality({i \in 1..Len(s) : s[i] \in chars})

\* the formulas a call encodes
EncodedFormulas ==
    IF loop = CHECK_ENTAILMENT THEN Append(premises, conclusion) ELSE premises

RECURSIVE Sum(_, _)
Sum(list, chars) ==
    IF list = << >> THEN 0 ELSE Count(Head(list), chars) + Sum(Tail(list), chars)

\* each -> and each <-> holds one "-", each <-> one "<"
BinaryOccurrences(list) == Sum(list, {"&", "|", "-"})
IffOccurrences(list) == Sum(list, {"<"})

Returned == loop \in Checks /\ pc = "done" /\ ret \notin Exceptions

\* C23: within a call of check_entailment or check_contradiction the counter
\* goes up by one for each binary connective that is encoded, and an atom or
\* a negation leaves it as it is and appends no clause: after the call the
\* counter is len(ATOM_MAP) plus the number of binary connectives in the
\* encoded formulas, and the clauses are those of the binary nodes and one
\* unit clause for each formula.
C23_CounterCountsBinaryNodes ==
    Returned
        => /\ top_var_list = Len(ATOMS(args.module)) + BinaryOccurrences(EncodedFormulas)
           /\ Len(wcnf) = 3 * BinaryOccurrences(EncodedFormulas)
                          + IffOccurrences(EncodedFormulas) + Len(EncodedFormulas)

\* a call on two premises has encoded a negation and two binary nodes
C23_Witness ==
    /\ Returned
    /\ Len(premises) = 2
    /\ Sum(EncodedFormulas, {"~"}) > 0
    /\ top_var_list = Len(ATOMS(args.module)) + 2

\* the variables of the clause set, and those above the atoms'
Variables == UNION {{Abs(wcnf[i][j]) : j \in 1..Len(wcnf[i])} : i \in 1..Len(wcnf)}
Auxiliary == {v \in Variables : v > Len(ATOMS(args.module))}

\* the unit clause of an atom that is a premise
AtomUnit(m, p) == <<ATOM_MAP(m)[p[1]]>>

\* C24: in every encoding session each atom stands for its one variable of
\* 1..len(ATOM_MAP), the counter never falls below len(ATOM_MAP), the
\* auxiliary variables are the numbers from len(ATOM_MAP) + 1 to the counter,
\* one for each binary node and no two the same, and every literal of the
\* clause set is of a variable between 1 and the counter.
C24_SessionVariables ==
    (loop \in Checks /\ pc = "done")
        => /\ top_var_list >= Len(ATOMS(args.module))
           /\ Variables \subseteq 1..top_var_list
           /\ Auxiliary = (Len(ATOMS(args.module)) + 1)..top_var_list
           /\ Returned
                => /\ Cardinality(Auxiliary) = BinaryOccurrences(EncodedFormulas)
                   /\ \A i \in 1..Len(premises) :
                        Len(premises[i]) = 1
                            => AtomUnit(args.module, premises[i]) \in Range(wcnf)

\* a call whose first premise is an atom has encoded two binary nodes over it
C24_Witness ==
    /\ Returned
    /\ Len(premises) = 2
    /\ Len(premises[1]) = 1
    /\ Count(premises[2], {premises[1][1]}) > 0
    /\ Cardinality(Auxiliary) = 2

(***************************************************************************)
(* Properties of the filters of an attempt, under Spec.                    *)
(***************************************************************************)
\* an attempt ends: the step from the draw to the verdict of the filters
AttemptEnds == pc = "drawn" /\ pc' # "drawn"

\* some premise can be left out
SomeRedundant(prem, concl) ==
    \E i \in 1..Len(prem) : Entails(Without(prem, i), concl)

\* C25: the necessity filter accepts a premise list for a conclusion exactly
\* when the list has a single element or no list with one premise removed
\* entails the conclusion; otherwise it rejects the whole list, and the
\* problem it accepts has all the premises of the candidate.
C25_NecessityVerdict ==
    [][(AttemptEnds /\ outcome' \in {"accepted", "unnecessary"})
         => /\ outcome' = "accepted"
                <=> (Len(premises) = 1 \/ ~SomeRedundant(premises, conclusion))
            /\ outcome' = "accepted"
                => /\ found' = Append(found, Problem(loop, premises, conclusion))
                   /\ Len(found'[Len(found')].premises) = Len(premises)
            /\ outcome' = "unnecessary" => found' = found]_vars

\* a candidate that passed the other filters has been rejected for a
\* redundant premise
C25_Witness ==
    /\ pc = "head"
    /\ outcome = "unnecessary"
    /\ found = << >>

\* C26: every candidate that reaches the filters, and so every accepted
\* problem, has the drawn number of premises, no two of them the same string;
\* a draw in which two premises coincided is discarded.
C26_CandidatesKeepTheirNumber ==
    [][AttemptEnds
         => /\ outcome' = "reroll" <=> Len(premises) < num_premises
            /\ outcome' # "reroll"
                => (Len(premises) = num_premises /\ Distinct(premises))
            /\ outcome' = "accepted"
                => /\ Len(found'[Len(found')].premises) = num_premises
                   /\ Distinct(found'[Len(found')].premises)]_vars

\* a draw of fewer strings than num_premises has been discarded
C26_Witness ==
    /\ pc = "head"
    /\ outcome = "reroll"
    /\ attempts = 1


\* C28: every parse failure of formula_to_clauses is a ValueError; on no
\* text, "()" and "( )" included, does another exception such as IndexError
\* leave the call.
C28_ParseFailureIsValueError ==
    (pc = "done" /\ loop = PARSE) => ret \in {"returned", "ValueError"}


\* the list l in the order p
Permuted(l, p) == [i \in 1..Len(l) |-> l[p[i]]]

\* every premise of the call is text the parser of the module reads
Parseable(m, prems) ==
    \A i \in 1..Len(prems) :
        FormulaToClauses(m, prems[i], NewSession(m)).exc = "none"

\* C29: check_entailment gives the same result on every permutation of a
\* premise list the parser reads, whatever numbers the auxiliary variables of
\* the subformulas get.
C29_PremiseOrderIsImmaterial ==
    (pc = "done" /\ loop = CHECK_ENTAILMENT /\ Parseable(args.module, premises))
        => \A p \in Permutations(1..Len(premises)) :
               check_entailment(args.module, Permuted(premises, p), conclusion).ret
                   = ret

\* an entailment from two premises whose clauses differ in the other order
C29_Witness ==
    /\ pc = "done"
    /\ loop = CHECK_ENTAILMENT
    /\ ret = "True"
    /\ Len(premises) = 2
    /\ Len(premises[1]) > 1
    /\ Len(premises[2]) > 1
    /\ check_entailment(args.module, <<premises[2], premises[1]>>, conclusion).hard
           # wcnf


\* the first check_entailment of the attempt is reached and raises
FirstCheckRaises ==
    /\ Len(premises) = num_premises
    /\ \A i \in 1..Len(premises) : premises[i] # conclusion
    /\ check_entailment(ModuleOf(loop), premises, conclusion).ret \in Exceptions

\* C30: in entailment_finder.main and generate_new_problem, where only the
\* first check_entailment is inside the try block, no attempt ends with an
\* exception leaving the loop: the contradiction check and the necessity
\* checks parse what the first check has parsed, and an attempt whose first
\* check raises is discarded and the loop goes on.
C30_UnguardedChecksNeverRaise ==
    [][(AttemptEnds /\ ~GuardsAll(loop))
         => /\ outcome' # "crash"
            /\ pc' # "raised"
            /\ FirstCheckRaises => (outcome' = "parse_error" /\ pc' = "head")
            /\ outcome' \in {"contradictory", "unnecessary", "accepted"}
                => /\ check_contradiction(ModuleOf(loop), premises).ret
                          \notin Exceptions
                   /\ Necessity(ModuleOf(loop), premises, conclusion)
                          \notin Exceptions]_vars

\* generate_new_problem went on after an attempt whose necessity checks, the
\* last of the checks outside the try block, found a premise to spare
C30_Witness ==
    /\ loop = BANK
    /\ pc = "head"
    /\ outcome = "unnecessary"
    /\ found = << >>

=============================================================================
